---- MODULE Spec2Model ----
(***************************************************************************)
(* Model of the spatial core of kittizen-v2:                               *)
(*   - the adaptive camera controller (components/3d/CameraController.tsx) *)
(*   - the body graph loader (services/SystemDataService.ts)               *)
(*   - the Kepler solver (services/AstroUtilsService.ts) and the orbit     *)
(*     propagator (StarSystemService)                                      *)
(*                                                                         *)
(* Numbers.  The camera works on JavaScript floats measured in Gm.  The    *)
(* model puts lengths on a grid of 1/Q Gm and time on ticks of             *)
(* 1/TicksPerSecond s.  NaN is a distinguished value that every            *)
(* arithmetic operator propagates and every comparison answers FALSE on,   *)
(* as IEEE-754 does.  A "normalize().multiplyScalar(s)" is rounded away    *)
(* from zero on the grid, so that the scaled vector is never shorter than  *)
(* s (in exact arithmetic it has length s).                                *)
(***************************************************************************)
EXTENDS Integers, Sequences, FiniteSets, TLC

VARIABLES
    \* ---- CameraController (React state, camera and controls objects)
    cameraMode,            \* useState cameraMode
    focusTarget,           \* useState focusTarget (Null when null)
    isTransitioning,       \* useState isTransitioning
    transitionStartPos,    \* useState Vector3, mutated in place
    transitionStartTarget, \* useState Vector3, mutated in place
    transitionProgress,    \* useState, in ticks out of TransitionTicks
    zoomLevel,             \* useState: -1 zoom in, 0 none, 1 zoom out
    camPosition,           \* cam.position
    controlsTarget,        \* controls.target (look-at)
    camNear,               \* cam.near, in NearUnitsPerGm-ths of a Gm
    camFar,                \* cam.far, grid units
    last,                  \* history: the last handle call
    nOps,                  \* history: number of handle calls so far
    nZoomFrames,           \* history: number of frames that applied a zoom step
    \* ---- SystemDataService
    rawData,               \* this.rawData.root (NoRoot when missing)
    processedData,         \* this.processedData: keys in insertion order, and the map
    rootObject,            \* this.rootObject ("" when null or undefined)
    loadReport,            \* console.error / console.warn calls of the last load
    reprocessCount,        \* history: number of reprocessData calls so far
    lastRead,              \* the last read, its argument, and the result the reader holds
    \* ---- AstroUtilsService, StarSystemService
    kepler,                \* a run of solveKeplersEquation: arguments, locals, position
    anomaly,               \* the last calculateTrueAnomaly call and its result
    systemData,            \* this.systemData.root of StarSystemService, after the constructor
    lastPosition,          \* the last calculateCurrentPosition call and its result
    \* ---- CameraController utilities evaluated on their own
    probe                  \* distances and frame delta handed to a utility, and its results

camVars == <<cameraMode, focusTarget, isTransitioning, transitionStartPos,
             transitionStartTarget, transitionProgress, zoomLevel, camPosition,
             controlsTarget, camNear, camFar, last, nOps, nZoomFrames>>

loadVars == <<rawData, processedData, rootObject, loadReport, reprocessCount, lastRead>>

astroVars == <<kepler, anomaly, systemData, lastPosition, probe>>

vars == <<camVars, loadVars, astroVars>>

----------------------------------------------------------------------------
\* Resolution of the model and its bounds

Q == 10                \* grid units per Gm (SCALE_FACTOR: 1 scene unit = 1 Gm)
TicksPerSecond == 2    \* frame deltas are multiples of 0.5 s
NearUnitsPerGm == 10000000  \* cam.near is kept in units of 0.0000001 Gm

MaxDelta == 2          \* largest frame delta, in ticks
MaxOps == 2            \* handle calls (changeFocus, setCameraMode, resetView)
MaxZoomFrames == 1     \* frames that apply a zoom step
MaxCoord == 2000       \* |coordinate| of the camera stays within 200 Gm

Deltas == 1..MaxDelta

----------------------------------------------------------------------------
\* IEEE-754 NaN and NaN-propagating arithmetic

NaN == -1000000000

IsNaN(x) == x = NaN

NAdd(a, b) == IF IsNaN(a) \/ IsNaN(b) THEN NaN ELSE a + b
NSub(a, b) == IF IsNaN(a) \/ IsNaN(b) THEN NaN ELSE a - b
NMul(a, b) == IF IsNaN(a) \/ IsNaN(b) THEN NaN ELSE a * b
NLt(a, b) == ~IsNaN(a) /\ ~IsNaN(b) /\ a < b
NGt(a, b) == ~IsNaN(a) /\ ~IsNaN(b) /\ a > b

\* Math.max / Math.min: NaN if either argument is NaN
MathMax(a, b) == IF IsNaN(a) \/ IsNaN(b) THEN NaN ELSE IF a > b THEN a ELSE b
MathMin(a, b) == IF IsNaN(a) \/ IsNaN(b) THEN NaN ELSE IF a < b THEN a ELSE b

Abs(x) == IF x < 0 THEN -x ELSE x
Sign(x) == IF x < 0 THEN -1 ELSE IF x > 0 THEN 1 ELSE 0

\* n/d rounded to the nearest integer, halves away from zero (d > 0)
RoundDiv(n, d) == IF n >= 0 THEN (n + d \div 2) \div d
                            ELSE -((-n + d \div 2) \div d)
\* n/d rounded up (n >= 0, d > 0)
CeilDiv(n, d) == (n + d - 1) \div d

\* a * num / den on the grid
NScale(a, num, den) == IF IsNaN(a) \/ IsNaN(num) THEN NaN ELSE RoundDiv(a * num, den)

RECURSIVE SqrtSearch(_, _, _)
SqrtSearch(n, lo, hi) ==
    IF lo >= hi THEN lo
    ELSE LET mid == (lo + hi + 1) \div 2
         IN IF mid * mid <= n THEN SqrtSearch(n, mid, hi) ELSE SqrtSearch(n, lo, mid - 1)

\* Math.sqrt, rounded down to the grid
FloorSqrt(n) == IF IsNaN(n) THEN NaN ELSE SqrtSearch(n, 0, 8191)

----------------------------------------------------------------------------
\* three.js Vector3

Vec(x, y, z) == <<x, y, z>>
Zero3 == Vec(0, 0, 0)

HasNaN(v) == \E i \in 1..3 : IsNaN(v[i])

VAdd(u, v) == [i \in 1..3 |-> NAdd(u[i], v[i])]
VSub(u, v) == [i \in 1..3 |-> NSub(u[i], v[i])]

\* Vector3.lengthSq / distanceToSquared
LengthSq(v) == IF HasNaN(v) THEN NaN ELSE v[1] * v[1] + v[2] * v[2] + v[3] * v[3]
DistSq(u, v) == LengthSq(VSub(u, v))

\* Vector3.length / distanceTo
Length(v) == FloorSqrt(LengthSq(v))
distanceTo(u, v) == Length(VSub(u, v))

\* Vector3.lerpVectors(v1, v2, alpha), alpha = num/den
lerpVectors(v1, v2, num, den) ==
    [i \in 1..3 |-> NAdd(v1[i], NScale(NSub(v2[i], v1[i]), num, den))]

\* v.normalize().multiplyScalar(s) with s = num/den grid units.
\* normalize() divides by (length() || 1): the zero vector stays zero, and a
\* vector with a NaN component is divided by 1.
normalizeScaled(v, num, den) ==
    IF IsNaN(num) THEN Vec(NaN, NaN, NaN)
    ELSE IF HasNaN(v) THEN [i \in 1..3 |-> NScale(v[i], num, den)]
    ELSE LET len == Length(v)
         IN IF len = 0 THEN Zero3
            ELSE [i \in 1..3 |-> Sign(v[i]) * CeilDiv(Abs(v[i]) * num, den * len)]

----------------------------------------------------------------------------
\* Types of the controller

MODE_OVERVIEW == "overview"
MODE_ORBIT == "orbit"
MODE_FIRST_PERSON == "first_person"
CameraMode == {MODE_OVERVIEW, MODE_ORBIT, MODE_FIRST_PERSON}

CelestialType == {"star", "planet", "moon", "station", "jump_point", "lagrange"}

DEFAULT_CAMERA_POSITION == Vec(0, 90 * Q, 0)

FocusTarget(name, type, size, pos) ==
    [objectName |-> name, objectType |-> type, objectSize |-> size, position |-> pos]

\* focusTarget === null
Null == FocusTarget("null", "none", 0, Zero3)

\* The focus targets a caller can pass to changeFocus, one of each kind.
\* Beacon sits where the overview camera is placed.
WellFormedTargets ==
    { FocusTarget("Beacon", "star", 2, DEFAULT_CAMERA_POSITION),
      FocusTarget("Hurston", "planet", 16, Vec(130, 0, -40)),
      FocusTarget("Everus", "station", 10, Vec(132, 0, -38)) }

\* Targets whose radius is zero or NaN, or whose position has a NaN component
DegenerateTargets ==
    { FocusTarget("ZeroSize", "moon", 0, Vec(140, 10, -40)),
      FocusTarget("NaNSize", "lagrange", NaN, Vec(110, 0, -30)),
      FocusTarget("NaNPos", "jump_point", 10, Vec(NaN, 20, 100)) }

Targets == WellFormedTargets \cup DegenerateTargets

IsDegenerate(t) == t.objectSize = 0 \/ IsNaN(t.objectSize) \/ HasNaN(t.position)

----------------------------------------------------------------------------
\* CameraController: utility functions

\* getDistanceForObject(objectType, objectSize), returned as TWICE the
\* distance so that the factor 1.5 stays exact: baseDistance = objectSize * 5
getDistanceForObject(objectType, objectSize) ==
    CASE objectType = "star"   -> NMul(objectSize, 20)   \* baseDistance * 2
      [] objectType = "planet" -> NMul(objectSize, 15)   \* baseDistance * 1.5
      [] objectType = "moon"   -> NMul(objectSize, 12)   \* baseDistance * 1.2
      [] OTHER                 -> NMul(objectSize, 10)   \* baseDistance

\* 1.5 second transition, in ticks
TransitionTicks == (3 * TicksPerSecond) \div 2

EaseDen == TransitionTicks * TransitionTicks * TransitionTicks

\* easeInOutCubic(t) for t = p / TransitionTicks, as a numerator over EaseDen:
\*   t < 0.5 ? 4*t*t*t : 1 - pow(-2*t + 2, 3) / 2
easeInOutCubic(p) ==
    IF 2 * p < TransitionTicks
    THEN 4 * p * p * p
    ELSE EaseDen - 4 * (TransitionTicks - p) * (TransitionTicks - p) * (TransitionTicks - p)

\* useFrame: targetCameraPosition for the transition
targetCameraPosition(ft, mode) ==
    IF ft = Null THEN DEFAULT_CAMERA_POSITION
    ELSE CASE mode = MODE_OVERVIEW -> DEFAULT_CAMERA_POSITION
           [] mode = MODE_ORBIT ->
                LET orbitDistance2 == getDistanceForObject(ft.objectType, ft.objectSize)
                IN VAdd(ft.position, Vec(NScale(orbitDistance2, 1, 2),
                                         NScale(orbitDistance2, 1, 4),
                                         NScale(orbitDistance2, 1, 2)))
           [] mode = MODE_FIRST_PERSON ->
                \* fpDistance = objectSize * 1.1; y offset fpDistance * 0.1
                VAdd(ft.position, Vec(NScale(ft.objectSize, 11, 10),
                                      NScale(ft.objectSize, 11, 100),
                                      0))

\* useFrame: targetControlsPosition for the transition
targetControlsPosition(ft, mode) ==
    IF ft = Null \/ mode = MODE_OVERVIEW THEN Zero3 ELSE ft.position

\* The mode effect (useEffect on [cameraMode, isTransitioning]); it runs with
\* isTransitioning false.  Result: the camera position and the look-at.
modeEffect(mode, ft, pos, tgt) ==
    CASE mode = MODE_OVERVIEW ->
            [position |-> DEFAULT_CAMERA_POSITION, target |-> Zero3]
      [] mode = MODE_ORBIT ->
            IF ft = Null THEN [position |-> pos, target |-> tgt]
            ELSE LET distanceFactor2 == getDistanceForObject(ft.objectType, ft.objectSize)
                 IN [position |-> VAdd(ft.position, Vec(NScale(distanceFactor2, 1, 2),
                                                        NScale(distanceFactor2, 1, 4),
                                                        NScale(distanceFactor2, 1, 2))),
                     target |-> ft.position]
      [] mode = MODE_FIRST_PERSON ->
            IF ft = Null THEN [position |-> pos, target |-> tgt]
            ELSE [position |-> VAdd(ft.position, Vec(NScale(ft.objectSize, 11, 10), 0, 0)),
                  target |-> ft.position]

\* distance > num/den Gm, decided on the squared distance (FALSE on NaN)
FartherThan(distSq, num, den) ==
    ~IsNaN(distSq) /\ distSq > (num * num * Q * Q) \div (den * den)

\* useFrame: adaptiveZoomSpeed for a frame of deltaTicks, in grid units.
\*   baseZoomSpeed = 10 * delta; adaptive = baseZoomSpeed * distance * factor
\*   clamped to [0.000001, 40] Gm
adaptiveZoomSpeed(pos, ft, deltaTicks) ==
    LET distSq == DistSq(pos, ft.position)
        distanceToTarget == distanceTo(pos, ft.position)
        factor10 == IF FartherThan(distSq, 10, 1) THEN 2
                    ELSE IF FartherThan(distSq, 1, 1) THEN 3
                    ELSE IF FartherThan(distSq, 1, 10) THEN 4
                    ELSE IF FartherThan(distSq, 1, 100) THEN 6
                    ELSE IF FartherThan(distSq, 1, 1000) THEN 8
                    ELSE 12
        raw == NScale(distanceToTarget, 10 * deltaTicks * factor10, 10 * TicksPerSecond)
    IN MathMax(RoundDiv(Q, 1000000), MathMin(40 * Q, raw))

\* useFrame: the zoom step applied to the camera position
zoomStep(pos, tgt, ft, zl, deltaTicks) ==
    LET zoomDirection == VSub(pos, tgt)
        speed == adaptiveZoomSpeed(pos, ft, deltaTicks)
    IN IF zl < 0
       THEN VSub(pos, normalizeScaled(zoomDirection, NMul(speed, 2), 1))
       ELSE VAdd(pos, normalizeScaled(zoomDirection, speed, 1))

\* useFrame: "Prevent camera from going below the orbital plane"
heightFloor(pos, mode) ==
    IF mode = MODE_OVERVIEW /\ NLt(pos[2], 10 * Q) THEN [pos EXCEPT ![2] = 10 * Q] ELSE pos

\* distanceToTarget < objectSize * 1.1, decided exactly on squares
CloserThanMinDistance(pos, ft) ==
    LET distSq == DistSq(pos, ft.position)
    IN /\ ~IsNaN(distSq)
       /\ ~IsNaN(ft.objectSize)
       /\ distSq < CeilDiv(121 * ft.objectSize * ft.objectSize, 100)

\* useFrame: "Ensure camera doesn't clip into objects"
minDistanceClamp(pos, ft) ==
    IF ft # Null /\ CloserThanMinDistance(pos, ft)
    THEN VAdd(ft.position,
              normalizeScaled(VSub(pos, ft.position), 11 * ft.objectSize, 10))
    ELSE pos

\* updateCameraPlanes: cam.near in NearUnitsPerGm-ths of a Gm
nearPlane(pos, ft) ==
    LET distSq == DistSq(pos, ft.position)
        distance == distanceTo(pos, ft.position)
        nearPlaneDistance ==
            IF FartherThan(distSq, 10, 1) THEN NScale(distance, NearUnitsPerGm \div 100, Q)
            ELSE IF FartherThan(distSq, 1, 1) THEN NScale(distance, NearUnitsPerGm \div 1000, Q)
            ELSE IF FartherThan(distSq, 1, 10) THEN NScale(distance, NearUnitsPerGm \div 10000, Q)
            ELSE IF FartherThan(distSq, 1, 100) THEN NScale(distance, NearUnitsPerGm \div 100000, Q)
            ELSE IF FartherThan(distSq, 1, 1000) THEN NScale(distance, NearUnitsPerGm \div 1000000, Q)
            ELSE 1
    IN MathMax(1, nearPlaneDistance)

\* updateCameraPlanes: cam.far in grid units
farPlane(pos, ft) ==
    LET distSq == DistSq(pos, ft.position)
        distance == distanceTo(pos, ft.position)
    IN IF FartherThan(distSq, 50, 1) THEN 200 * Q
       ELSE IF FartherThan(distSq, 10, 1) THEN 150 * Q
       ELSE IF FartherThan(distSq, 1, 1) THEN MathMax(100 * Q, NMul(distance, 15))
       ELSE MathMax(50 * Q, NMul(distance, 20))

\* The body of the useFrame callback on the camera and the controls, for a
\* zoom level zl and a frame of deltaTicks, from the current state.
FrameCamera(zl, deltaTicks) ==
    LET ease == easeInOutCubic(transitionProgress)
        p1 == IF isTransitioning
              THEN lerpVectors(transitionStartPos,
                               targetCameraPosition(focusTarget, cameraMode), ease, EaseDen)
              ELSE camPosition
        t1 == IF isTransitioning
              THEN lerpVectors(transitionStartTarget,
                               targetControlsPosition(focusTarget, cameraMode), ease, EaseDen)
              ELSE controlsTarget
        p2 == IF zl # 0 /\ focusTarget # Null
              THEN zoomStep(p1, t1, focusTarget, zl, deltaTicks)
              ELSE p1
        p3 == heightFloor(p2, cameraMode)
        p4 == minDistanceClamp(p3, focusTarget)
    IN [position |-> p4,
        target |-> t1,
        near |-> IF focusTarget # Null THEN nearPlane(p4, focusTarget) ELSE camNear,
        far |-> IF focusTarget # Null THEN farPlane(p4, focusTarget) ELSE camFar]

----------------------------------------------------------------------------
\* CameraController: state after mount

\* History record: the last call through the handle, the target it was
\* called with (changeFocus), and whether it was a changeFocus that
\* interrupted a transition under way (one whose camera had already left the
\* transition's start position).
Op(name, target, interrupted) == [op |-> name, target |-> target, interrupted |-> interrupted]

CamInit ==
    /\ cameraMode = MODE_OVERVIEW          \* initialCameraMode = CameraMode.OVERVIEW
    /\ focusTarget = Null                  \* initialFocusTarget || null
    /\ isTransitioning = FALSE
    /\ transitionStartPos = Zero3
    /\ transitionStartTarget = Zero3
    /\ transitionProgress = 0
    /\ zoomLevel = 0
    /\ camPosition = DEFAULT_CAMERA_POSITION
    /\ controlsTarget = Zero3
    /\ camNear = NearUnitsPerGm \div 1000   \* cam.near = 0.001
    /\ camFar = 150 * Q                     \* cam.far = 150
    /\ last = Op("mount", Null, FALSE)
    /\ nOps = 0
    /\ nZoomFrames = 0

----------------------------------------------------------------------------
\* CameraController: operations

\* A changeFocus that sends a moon to the overview instead of the orbit mode
modeForTarget_moonOverview(newTarget) ==
    IF newTarget = Null THEN MODE_OVERVIEW
    ELSE CASE newTarget.objectType \in {"star", "moon"} -> MODE_OVERVIEW
           [] newTarget.objectType = "planet" -> MODE_ORBIT
           [] newTarget.objectType \in {"station", "jump_point", "lagrange"} -> MODE_FIRST_PERSON
           [] OTHER -> cameraMode

\* The camera mode changeFocus switches to
modeForTarget(newTarget) ==
    IF newTarget = Null THEN MODE_OVERVIEW
    ELSE CASE newTarget.objectType = "star" -> MODE_OVERVIEW
           [] newTarget.objectType \in {"planet", "moon"} -> MODE_ORBIT
           [] newTarget.objectType \in {"station", "jump_point", "lagrange"} -> MODE_FIRST_PERSON
           [] OTHER -> cameraMode

\* A changeFocus that keeps the start values of a transition under way
changeFocusUpdates_keepsStart(newTarget) ==
    /\ transitionStartPos' = IF isTransitioning THEN transitionStartPos ELSE camPosition
    /\ transitionStartTarget' = IF isTransitioning THEN transitionStartTarget ELSE controlsTarget
    /\ transitionProgress' = 0
    /\ isTransitioning' = TRUE
    /\ focusTarget' = newTarget
    /\ cameraMode' = modeForTarget(newTarget)
    /\ UNCHANGED <<zoomLevel, camPosition, controlsTarget, camNear, camFar>>

\* changeFocus(newTarget): the state updates it makes.  The mode effect that
\* follows the re-render finds isTransitioning true and does nothing.
changeFocusUpdates(newTarget) ==
    /\ transitionStartPos' = camPosition
    /\ transitionStartTarget' = controlsTarget
    /\ transitionProgress' = 0
    /\ isTransitioning' = TRUE
    /\ focusTarget' = newTarget
    /\ cameraMode' = modeForTarget(newTarget)
    /\ UNCHANGED <<zoomLevel, camPosition, controlsTarget, camNear, camFar>>

changeFocus(newTarget) ==
    /\ nOps < MaxOps
    /\ changeFocusUpdates(newTarget)
    /\ last' = Op("changeFocus", newTarget, isTransitioning /\ transitionProgress > 0
                                       /\ camPosition # transitionStartPos)
    /\ nOps' = nOps + 1
    /\ UNCHANGED <<nZoomFrames, loadVars, astroVars>>

\* setCameraMode(mode) of the handle is the bare state setter.  When the mode
\* changes the component re-renders and the mode effect runs; outside a
\* transition it places the camera directly.
setCameraMode(mode) ==
    /\ nOps < MaxOps
    /\ mode # cameraMode                \* the setter bails out on an equal value
    /\ cameraMode' = mode
    /\ IF ~isTransitioning
       THEN LET e == modeEffect(mode, focusTarget, camPosition, controlsTarget)
            IN /\ camPosition' = e.position
               /\ controlsTarget' = e.target
       ELSE UNCHANGED <<camPosition, controlsTarget>>
    /\ UNCHANGED <<focusTarget, isTransitioning, transitionStartPos, transitionStartTarget,
                   transitionProgress, zoomLevel, camNear, camFar>>
    /\ last' = Op("setCameraMode", Null, FALSE)
    /\ nOps' = nOps + 1
    /\ UNCHANGED <<nZoomFrames, loadVars, astroVars>>

\* A resetView that only sets the mode and leaves the focus alone
resetView_modeOnly ==
    /\ nOps < MaxOps
    /\ cameraMode' = MODE_OVERVIEW
    /\ UNCHANGED <<focusTarget, isTransitioning, transitionStartPos, transitionStartTarget,
                   transitionProgress, zoomLevel, camPosition, controlsTarget, camNear, camFar>>
    /\ last' = Op("resetView", Null, FALSE)
    /\ nOps' = nOps + 1
    /\ UNCHANGED <<nZoomFrames, loadVars, astroVars>>

\* resetView: changeFocus(null); setCameraMode(CameraMode.OVERVIEW), batched
resetView ==
    /\ nOps < MaxOps
    /\ changeFocusUpdates(Null)
    /\ last' = Op("resetView", Null, FALSE)
    /\ nOps' = nOps + 1
    /\ UNCHANGED <<nZoomFrames, loadVars, astroVars>>

setZoomLevel(zl) ==
    /\ zoomLevel # zl
    /\ zoomLevel' = zl
    /\ UNCHANGED <<cameraMode, focusTarget, isTransitioning, transitionStartPos,
                   transitionStartTarget, transitionProgress, camPosition, controlsTarget,
                   camNear, camFar, last, nOps, nZoomFrames, loadVars, astroVars>>

\* zoom intents are explored while a frame can still apply them
zoomIn == nZoomFrames < MaxZoomFrames /\ setZoomLevel(-1)
zoomOut == nZoomFrames < MaxZoomFrames /\ setZoomLevel(1)
stopZoom == setZoomLevel(0)

InRange(v) == \A i \in 1..3 : IsNaN(v[i]) \/ Abs(v[i]) <= MaxCoord

\* An updater that adds the frame's share without the cap at 1.0
nextProgress_unclamped(prev, deltaTicks) == prev + deltaTicks

\* An updater that starts over from 0 instead of stopping at 1.0
nextProgress_wrapping(prev, deltaTicks) == (prev + deltaTicks) % TransitionTicks

\* The updater of setTransitionProgress: prev + delta / 1.5, and 1.0 once
\* that reaches 1.0
nextProgress(prev, deltaTicks) ==
    LET newProgress == prev + deltaTicks
    IN IF newProgress >= TransitionTicks THEN TransitionTicks ELSE newProgress

\* useFrame((_, delta) => ...), followed by the re-render its state updates
\* cause: when the transition ends, the mode effect runs.
useFrame(deltaTicks) ==
    /\ (zoomLevel # 0 /\ focusTarget # Null) => nZoomFrames < MaxZoomFrames
    /\ \E f \in {FrameCamera(zoomLevel, deltaTicks)} :
       LET zooms == zoomLevel # 0 /\ focusTarget # Null
           newProgress == nextProgress(transitionProgress, deltaTicks)
           ends == isTransitioning /\ newProgress >= TransitionTicks
           e == modeEffect(cameraMode, focusTarget, f.position, f.target)
       IN
       /\ InRange(f.position)
       /\ transitionProgress' = IF ~isTransitioning THEN transitionProgress ELSE newProgress
       /\ isTransitioning' = (isTransitioning /\ ~ends)
       /\ camPosition' = IF ends THEN e.position ELSE f.position
       /\ controlsTarget' = IF ends THEN e.target ELSE f.target
       /\ camNear' = f.near
       /\ camFar' = f.far
       /\ nZoomFrames' = IF zooms THEN nZoomFrames + 1 ELSE nZoomFrames
       /\ UNCHANGED <<cameraMode, focusTarget, transitionStartPos, transitionStartTarget,
                      zoomLevel, last, nOps, loadVars, astroVars>>

CamNext ==
    \/ \E t \in Targets \cup {Null} : changeFocus(t)
    \/ \E m \in CameraMode : setCameraMode(m)
    \/ resetView
    \/ zoomIn
    \/ zoomOut
    \/ stopZoom
    \/ \E d \in Deltas : useFrame(d)

----------------------------------------------------------------------------
\* SystemDataService: the raw hierarchical snapshot
\*
\* A raw node is a record; an absent string field is "", an absent diameter
\* is 0 (both are falsy in the code), positions are in Gm.

RawNode(name, label, type, parent, pos, diameter, children) ==
    [name |-> name, label |-> label, type |-> type, parent |-> parent,
     position |-> pos, diameter |-> diameter, children |-> children]

\* rawData.root is missing
NoRoot == RawNode("", "", "none", "", Zero3, 0, <<>>)

MaxReprocess == 1      \* reprocessData calls

NodeNames == {"Stanton", "Hurston", "Aberdeen", ""}

\* What a child can declare as its parent: nothing, its real parent, or a
\* name that no node carries
DeclaredParents(realParent) == {"", realParent, "Ghost"}

RootNames == {"Stanton", ""}

Leaf(name, type, parent, pos, diameter) == RawNode(name, "", type, parent, pos, diameter, <<>>)

\* The trees handed to the loader: a root with up to two descendants, laid
\* out as siblings or as a chain.
RawTrees ==
    LET Root(n, kids) == RawNode(n, "Stanton (star)", "Star", "", Zero3, 696, kids)
        Planets(rn) == { Leaf(n, "Planet", dp, Vec(12, 5, 0), 1) :
                            n \in NodeNames, dp \in DeclaredParents(rn) }
        Moons(pn) == { Leaf(n, "moon", dp, Vec(12, 8, 4), 0) :
                            n \in NodeNames, dp \in DeclaredParents(pn) }
        Outposts(rn) == { Leaf(n, "Outpost", dp, Vec(-3, 0, 4), 0) :
                            n \in NodeNames, dp \in DeclaredParents(rn) }
    IN  { Root(rn, <<>>) : rn \in RootNames }
        \cup { Root(rn, <<c>>) : rn \in RootNames, c \in UNION { Planets(r) : r \in RootNames } }
        \cup { Root(rn, <<c, d>>) : rn \in RootNames,
                                    c \in UNION { Planets(r) : r \in RootNames },
                                    d \in UNION { Outposts(r) : r \in RootNames } }
        \cup { Root(rn, <<[c EXCEPT !.children = <<g>>]>>) :
                    rn \in RootNames,
                    c \in UNION { Planets(r) : r \in RootNames },
                    g \in UNION { Moons(n) : n \in NodeNames } }

RawInputs == RawTrees \cup {NoRoot}

RECURSIVE FlattenSeq(_)
\* every node of a forest, parents before children, in document order
FlattenSeq(nodes) ==
    IF nodes = <<>> THEN <<>>
    ELSE <<Head(nodes)>> \o FlattenSeq(Head(nodes).children) \o FlattenSeq(Tail(nodes))

AllNodes(root) == IF root = NoRoot THEN <<>> ELSE FlattenSeq(<<root>>)

----------------------------------------------------------------------------
\* SystemDataService: processing

\* String.prototype.toLowerCase on the type strings of the snapshot
toLowerCase(str) ==
    CASE str = "Star" -> "star"
      [] str = "Planet" -> "planet"
      [] str = "Moon" -> "moon"
      [] str = "Outpost" -> "outpost"
      [] OTHER -> str

\* processObject: "Determine object type"
celestialTypeOf(obj) ==
    LET t == toLowerCase(obj.type)
    IN CASE t = "star" -> "star"
         [] t = "planet" -> "planet"
         [] t = "moon" -> "moon"
         [] t \in {"station", "outpost"} -> "station"
         [] t \in {"gateway", "jumppoint"} -> "jump_point"
         [] t = "lagrange" -> "lagrange"
         [] OTHER -> "station"

\* processObject: "Determine size" (visualRadius is absent from the snapshot)
sizeOf(obj, type) ==
    IF obj.diameter # 0 THEN obj.diameter
    ELSE CASE type = "star" -> 1000000
           [] type = "planet" -> 1000
           [] type = "moon" -> 300
           [] OTHER -> 10

generateColorForType(type) ==
    CASE type = "star" -> "#F9D71C"
      [] type = "planet" -> "#78A0C3"
      [] type = "moon" -> "#AABBCC"
      [] type = "station" -> "#88DDFF"
      [] type = "jump_point" -> "#FFAA22"
      [] type = "lagrange" -> "#22FFAA"
      [] OTHER -> "#FFFFFF"

\* Math.atan2(y, x) * (180 / Math.PI), kept as a term over its arguments
atan2Deg(y, x) == <<"atan2deg", y, x>>

\* orbit: undefined
NoOrbit == [defined |-> FALSE, parentPosition |-> Zero3, semiMajorAxis |-> 0,
            eccentricity100 |-> 0, inclination |-> atan2Deg(0, 0), rotation |-> atan2Deg(0, 0)]

\* processObject: "Calculate orbital parameters if there's a parent"
orbitOf(position, parentPos) ==
    LET childVec == VSub(position, parentPos)
        xy == FloorSqrt(childVec[1] * childVec[1] + childVec[2] * childVec[2])
    IN [defined |-> TRUE,
        parentPosition |-> parentPos,
        semiMajorAxis |-> Length(childVec),
        eccentricity100 |-> 1,                       \* eccentricity: 0.01
        inclination |-> atan2Deg(childVec[3], xy),
        rotation |-> atan2Deg(childVec[2], childVec[1])]

EmptyData == [order |-> <<>>, byId |-> <<>>, warnings |-> 0]

RECURSIVE processObject(_, _, _)
RECURSIVE processChildren(_, _, _)

\* processObject(obj, parentId) on the index pd; parentId "" is null
processObject(pd, obj, parentId) ==
    IF obj.name = ""
    THEN [pd EXCEPT !.warnings = @ + 1]       \* console.warn, return
    ELSE LET id == obj.name
             name == IF obj.label # "" THEN obj.label ELSE obj.name
             type == celestialTypeOf(obj)
             parentKnown == parentId # "" /\ parentId \in DOMAIN pd.byId
             entry == [id |-> id, name |-> name, type |-> type,
                       position |-> obj.position,
                       size |-> sizeOf(obj, type),
                       color |-> generateColorForType(type),
                       parent |-> parentId,
                       children |-> <<>>,
                       orbit |-> IF parentKnown
                                 THEN orbitOf(obj.position, pd.byId[parentId].position)
                                 ELSE NoOrbit]
             byId1 == (id :> entry) @@ pd.byId
             order1 == IF id \in DOMAIN pd.byId THEN pd.order ELSE Append(pd.order, id)
             byId2 == IF parentId # "" /\ parentId \in DOMAIN byId1
                      THEN [byId1 EXCEPT ![parentId].children = Append(@, id)]
                      ELSE byId1
         IN processChildren([order |-> order1, byId |-> byId2, warnings |-> pd.warnings],
                            obj.children, id)

RECURSIVE processChildren_noParent(_, _, _)
\* A forEach that hands null to processObject in place of the id
processChildren_noParent(pd, kids, id) ==
    IF kids = <<>> THEN pd
    ELSE processChildren_noParent(processObject(pd, Head(kids), ""), Tail(kids), id)

\* obj.children.forEach(child => this.processObject(child, id))
processChildren(pd, kids, id) ==
    IF kids = <<>> THEN pd
    ELSE processChildren(processObject(pd, Head(kids), id), Tail(kids), id)

\* processSystemData on a cleared service: the index, the root and the report
processSystemData(raw) ==
    IF raw = NoRoot
    THEN [data |-> [order |-> <<>>, byId |-> <<>>], root |-> "",
          report |-> [errors |-> 1, warnings |-> 0]]
    ELSE LET pd == processObject(EmptyData, raw, "")
         IN [data |-> [order |-> pd.order, byId |-> pd.byId], root |-> raw.name,
             report |-> [errors |-> 0, warnings |-> pd.warnings]]

----------------------------------------------------------------------------
\* SystemDataService: state after the constructor, and operations

NoRead == [op |-> "none", arg |-> "", result |-> <<>>]

LoadInit ==
    /\ rawData \in RawInputs
    /\ LET r == processSystemData(rawData)
       IN /\ processedData = r.data
          /\ rootObject = r.root
          /\ loadReport = r.report
    /\ reprocessCount = 0
    /\ lastRead = NoRead

\* A reprocessData whose derived eccentricities are drawn anew on every run
reprocessData_randomEccentricity ==
    /\ reprocessCount < MaxReprocess
    /\ \E e \in 0..10 :
         LET r == processSystemData(rawData)
             redrawn(obj) == IF obj.orbit.defined
                             THEN [obj EXCEPT !.orbit.eccentricity100 = e]
                             ELSE obj
         IN /\ processedData' = [r.data EXCEPT !.byId = [id \in DOMAIN @ |-> redrawn(@[id])]]
            /\ rootObject' = r.root
            /\ loadReport' = r.report
    /\ reprocessCount' = reprocessCount + 1
    /\ UNCHANGED <<rawData, lastRead, camVars, astroVars>>

\* A reprocessData that lets readers in between its clearing and its processing
reprocessData_clearOnly ==
    /\ reprocessCount < MaxReprocess
    /\ processedData' = [order |-> <<>>, byId |-> <<>>]
    /\ rootObject' = ""
    /\ reprocessCount' = reprocessCount + 1
    /\ UNCHANGED <<rawData, loadReport, lastRead, camVars, astroVars>>

\* reprocessData(): clear, then processSystemData(), in one synchronous call.
\* The index is replaced by a new object, so a result a reader still holds is
\* left as it was.
reprocessData ==
    /\ reprocessCount < MaxReprocess
    /\ LET r == processSystemData(rawData)
       IN /\ processedData' = r.data
          /\ rootObject' = r.root
          /\ loadReport' = r.report
    /\ reprocessCount' = reprocessCount + 1
    /\ UNCHANGED <<rawData, lastRead, camVars, astroVars>>

\* Object.values(this.processedData)
objectValues == [i \in 1..Len(processedData.order) |-> processedData.byId[processedData.order[i]]]

Read(op, arg, result) ==
    /\ lastRead' = [op |-> op, arg |-> arg, result |-> result]
    /\ UNCHANGED <<rawData, processedData, rootObject, loadReport, reprocessCount, camVars, astroVars>>

\* getAllObjects()
getAllObjects == Read("getAllObjects", "", objectValues)

\* getRootObject(): this.rootObject ? this.processedData[this.rootObject] : null
getRootObjectResult ==
    IF rootObject # "" /\ rootObject \in DOMAIN processedData.byId
    THEN <<processedData.byId[rootObject]>>
    ELSE <<>>

getRootObject == Read("getRootObject", "", getRootObjectResult)

\* getObjectsByType(type)
getObjectsByType(type) ==
    Read("getObjectsByType", type, SelectSeq(objectValues, LAMBDA obj : obj.type = type))

\* getChildren(objectId)
getChildren(objectId) ==
    Read("getChildren", objectId,
         IF objectId \in DOMAIN processedData.byId
         THEN LET kids == processedData.byId[objectId].children
              IN [i \in 1..Len(kids) |-> processedData.byId[kids[i]]]
         ELSE <<>>)

LoadNext ==
    \/ reprocessData
    \/ getAllObjects
    \/ getRootObject
    \/ \E t \in CelestialType : getObjectsByType(t)
    \/ \E id \in NodeNames \ {""} : getChildren(id)

----------------------------------------------------------------------------
\* AstroUtilsService: numbers
\*
\* Angles, eccentricities and the values of sin and cos are on a grid of
\* 1/Unit (Unit stands for 1.0, and for 1 rad).  Math.sin and Math.cos are
\* computed by their Taylor series on [-PI/2, PI/2] after the reduction of the
\* argument; Math.atan2 by bisection on the angle.  Each is within a few grid
\* units of the exact value.

Unit == 10000
PI == 31416                  \* Math.PI
TwoPi == 2 * PI
HalfPi == PI \div 2

\* JavaScript a % b for b > 0: the result has the sign of a
JSMod(a, b) == IF IsNaN(a) THEN NaN ELSE IF a >= 0 THEN a % b ELSE -((-a) % b)

\* sin on [-PI/2, PI/2]: x - x^3/3! + x^5/5! - x^7/7! + x^9/9!
SinSeries(x) ==
    LET x2 == RoundDiv(x * x, Unit)
        t3 == RoundDiv(x * x2, 6 * Unit)
        t5 == RoundDiv(t3 * x2, 20 * Unit)
        t7 == RoundDiv(t5 * x2, 42 * Unit)
        t9 == RoundDiv(t7 * x2, 72 * Unit)
    IN x - t3 + t5 - t7 + t9

\* Math.sin
Sin(x) ==
    IF IsNaN(x) THEN NaN
    ELSE LET r == x % TwoPi
         IN IF r <= HalfPi THEN SinSeries(r)
            ELSE IF r <= PI + HalfPi THEN SinSeries(PI - r)
            ELSE SinSeries(r - TwoPi)

\* Math.cos
Cos(x) == IF IsNaN(x) THEN NaN ELSE Sin(x + HalfPi)

RECURSIVE AtanSearch(_, _, _, _)
\* the largest angle a in [lo, hi] with ay * cos(a) - ax * sin(a) >= 0
AtanSearch(ay, ax, lo, hi) ==
    IF lo >= hi THEN lo
    ELSE LET mid == (lo + hi + 1) \div 2
         IN IF ay * Cos(mid) - ax * Sin(mid) >= 0
            THEN AtanSearch(ay, ax, mid, hi)
            ELSE AtanSearch(ay, ax, lo, mid - 1)

\* Math.atan2(y, x), in (-PI, PI]
Atan2(y, x) ==
    IF IsNaN(y) \/ IsNaN(x) THEN NaN
    ELSE LET m == IF Abs(y) > Abs(x) THEN Abs(y) ELSE Abs(x)
             k == m \div 20000 + 1                 \* keeps the products in range
             ay == Abs(y) \div k
             ax == Abs(x) \div k
             a == IF ay = 0 THEN 0
                  ELSE IF ax = 0 THEN HalfPi
                  ELSE AtanSearch(ay, ax, 0, HalfPi)
         IN IF x >= 0 THEN Sign(y) * a
            ELSE IF y >= 0 THEN PI - a
            ELSE a - PI

\* Math.sqrt of n / Unit^2, in 1/Unit (rounded down)
SqrtUnit(n) == IF IsNaN(n) THEN NaN ELSE SqrtSearch(n, 0, 46340)

----------------------------------------------------------------------------
\* AstroUtilsService.KeplerianOrbit

\* 1e-10 is below the grid, where it is 0: |delta| > 1e-10 iff delta # 0
tolerance == 0
maxIterations == 30

\* n / d for n and d in 1/Unit, in 1/Unit (d > 0); the quotient and the
\* remainder are scaled apart, which keeps the products in range
Quotient(n, d) ==
    Sign(n) * ((Abs(n) \div d) * Unit + RoundDiv((Abs(n) % d) * Unit, d))

\* (E - eccentricity * Math.sin(E) - M) / (1 - eccentricity * Math.cos(E))
NewtonDelta(E, M, eccentricity) ==
    IF IsNaN(E) \/ IsNaN(M) THEN NaN
    ELSE Quotient(E - RoundDiv(eccentricity * Sin(E), Unit) - M,
                  Unit - RoundDiv(eccentricity * Cos(E), Unit))

\* solveKeplersEquation up to the loop: M, the initial guess, delta = 1,
\* iteration = 0
KeplerStart(meanAnomaly, eccentricity) ==
    LET M == JSMod(meanAnomaly, TwoPi)
    IN [pc |-> "loop", meanAnomaly |-> meanAnomaly, eccentricity |-> eccentricity,
        M |-> M,
        E |-> IF eccentricity > (8 * Unit) \div 10 THEN PI ELSE M,
        delta |-> Unit,
        iteration |-> 0]

\* A loop condition without the cap on the iterations
LoopCondition_noCap(k) ==
    ~IsNaN(k.delta) /\ Abs(k.delta) > tolerance

\* Math.abs(delta) > tolerance && iteration < maxIterations
LoopCondition(k) ==
    ~IsNaN(k.delta) /\ Abs(k.delta) > tolerance /\ k.iteration < maxIterations

\* the body of the loop
KeplerIterate(k) ==
    LET d == NewtonDelta(k.E, k.M, k.eccentricity)
    IN [k EXCEPT !.delta = d, !.E = NSub(@, d), !.iteration = @ + 1]

RECURSIVE KeplerRun(_)
KeplerRun(k) == IF LoopCondition(k) THEN KeplerRun(KeplerIterate(k)) ELSE k

\* solveKeplersEquation(meanAnomaly, eccentricity)
solveKeplersEquation(meanAnomaly, eccentricity) ==
    KeplerRun(KeplerStart(meanAnomaly, eccentricity)).E

\* calculateTrueAnomaly(eccentricAnomaly, eccentricity)
calculateTrueAnomaly(eccentricAnomaly, eccentricity) ==
    IF IsNaN(eccentricAnomaly) THEN NaN
    ELSE LET cosE == Cos(eccentricAnomaly)
             sinE == Sin(eccentricAnomaly)
             den == Unit - RoundDiv(eccentricity * cosE, Unit)
             cosV == Quotient(cosE - eccentricity, den)
             sinV == Quotient(RoundDiv(SqrtUnit(Unit * Unit - eccentricity * eccentricity) * sinE,
                                       Unit), den)
         IN Atan2(sinV, cosV)

\* orbitalToCartesian(semiMajorAxis, eccentricity, trueAnomaly): [x, y] in the
\* unit of semiMajorAxis
orbitalToCartesian(semiMajorAxis, eccentricity, trueAnomaly) ==
    IF IsNaN(trueAnomaly) THEN <<NaN, NaN>>
    ELSE LET radius == RoundDiv(semiMajorAxis * (Unit - RoundDiv(eccentricity * eccentricity, Unit)),
                                Unit + RoundDiv(eccentricity * Cos(trueAnomaly), Unit))
         IN <<RoundDiv(radius * Cos(trueAnomaly), Unit),
              RoundDiv(radius * Sin(trueAnomaly), Unit)>>

\* rotateToReferenceFrame(x, y, inclination, longitudeOfAscendingNode,
\* argumentOfPeriapsis), angles in rad
rotateToReferenceFrame(x, y, inclination, longitudeOfAscendingNode, argumentOfPeriapsis) ==
    IF IsNaN(x) \/ IsNaN(y) THEN Vec(NaN, NaN, NaN)
    ELSE LET mul(a, b) == RoundDiv(a * b, Unit)
             cosAoP == Cos(argumentOfPeriapsis)
             sinAoP == Sin(argumentOfPeriapsis)
             cosInc == Cos(inclination)
             sinInc == Sin(inclination)
             cosLAN == Cos(longitudeOfAscendingNode)
             sinLAN == Sin(longitudeOfAscendingNode)
         IN Vec(mul(mul(cosLAN, cosAoP) - mul(mul(sinLAN, sinAoP), cosInc), x)
                  + mul(-mul(cosLAN, sinAoP) - mul(mul(sinLAN, cosAoP), cosInc), y),
                mul(mul(sinLAN, cosAoP) + mul(mul(cosLAN, sinAoP), cosInc), x)
                  + mul(-mul(sinLAN, sinAoP) + mul(mul(cosLAN, cosAoP), cosInc), y),
                mul(mul(sinAoP, sinInc), x) + mul(mul(cosAoP, sinInc), y))

----------------------------------------------------------------------------
\* KeplerianOrbit: a run of the solver, pass by pass, and calls of
\* calculateTrueAnomaly

\* Mean anomalies handed to the solver: in [0, 2 PI), negative, beyond a
\* turn, and NaN
MeanAnomalies == {0, 1, 5000, HalfPi, PI, 40000, 62000, TwoPi - 1, -1000, -41500, -60000,
                  100000, NaN}

\* Eccentricities in [0, 1): 0, 0.01, 0.5, 0.8, 0.8001, 0.95, 0.99
Eccentricities == {0, 100, 5000, 8000, 8001, 9500, 9900}

\* Eccentric anomalies over [0, 2 PI)
EccentricAnomalies == {0, 7854, HalfPi, PI, 39270, PI + HalfPi, TwoPi - 1}

KeplerIdle == [pc |-> "idle", meanAnomaly |-> 0, eccentricity |-> 0, M |-> 0, E |-> 0,
               delta |-> 0, iteration |-> 0]

NoAnomaly == [called |-> FALSE, eccentricAnomaly |-> 0, eccentricity |-> 0, result |-> 0]

KeplerInit ==
    /\ kepler \in { KeplerStart(m, e) : m \in MeanAnomalies, e \in Eccentricities }
    /\ anomaly = NoAnomaly

\* one pass of the while loop
solveIterate ==
    /\ kepler.pc = "loop"
    /\ LoopCondition(kepler)
    /\ kepler' = KeplerIterate(kepler)
    /\ UNCHANGED <<anomaly, systemData, lastPosition, probe, camVars, loadVars>>

\* the loop condition fails: return E
solveReturn ==
    /\ kepler.pc = "loop"
    /\ ~LoopCondition(kepler)
    /\ kepler' = [kepler EXCEPT !.pc = "done"]
    /\ UNCHANGED <<anomaly, systemData, lastPosition, probe, camVars, loadVars>>

\* calculateTrueAnomaly(E, e), as calculateCurrentPosition calls it on the
\* solver's result, or on any eccentric anomaly; the solver is synchronous,
\* so no call falls inside its loop
trueAnomalyCall(E, e) ==
    /\ kepler.pc = "done"
    /\ anomaly' = [called |-> TRUE, eccentricAnomaly |-> E, eccentricity |-> e,
                   result |-> calculateTrueAnomaly(E, e)]
    /\ UNCHANGED <<kepler, systemData, lastPosition, probe, camVars, loadVars>>

KeplerNext ==
    \/ solveIterate
    \/ solveReturn
    \/ trueAnomalyCall(kepler.E, kepler.eccentricity)
    \/ \E E \in EccentricAnomalies, e \in {0, 100, 9500} : trueAnomalyCall(E, e)

----------------------------------------------------------------------------
\* StarSystemService. Lengths in km are kept in units of KmUnit km, lengths
\* in Gm in 1/Unit Gm, angles in degrees in 1/DegUnit degree, angles in rad in
\* 1/Unit rad, hours in units of 100000 h.

KM_PER_GM == 1000000         \* 1 Gm = 1,000,000 km
KmUnit == 1000
DegUnit == 100

\* UnitConversions.kmToGm: km / KM_PER_GM
kmToGm(km) == RoundDiv(km * Unit, KM_PER_GM \div KmUnit)

\* UnitConversions.gmToKm: gm * KM_PER_GM
gmToKm(gm) == RoundDiv(gm * (KM_PER_GM \div KmUnit), Unit)

\* angle * DEG_TO_RAD
DegToRad(deg) == RoundDiv(deg * PI, 180 * DegUnit)

\* angle * RAD_TO_DEG
RadToDeg(rad) == RoundDiv(rad * 180 * DegUnit, PI)

\* body.orbitalParameters of a body that has none
NoOrbitalParameters ==
    [defined |-> FALSE, semiMajorAxis |-> 0, eccentricity |-> 0, inclination |-> 0,
     longitudeOfAscendingNode |-> 0, argumentOfPeriapsis |-> 0, meanAnomaly |-> 0,
     orbitalPeriod |-> 0]

\* A CelestialBody of the data file; parent "" and diameter 0 are the absent
\* fields
Body(name, parent, position, diameter) ==
    [name |-> name, parent |-> parent, position |-> position, diameter |-> diameter,
     orbitalParameters |-> NoOrbitalParameters]

\* getRelativePosition(p, relative)
getRelativePosition(p, relative) == VSub(p, relative)

\* calculateDistance(p1): the magnitude of the vector
calculateDistance(p1) == SqrtSearch(LengthSq(p1), 0, 46340)

\* calculateInitialMeanAnomaly(position): (atan2(y, x) * RAD_TO_DEG + 360) % 360
calculateInitialMeanAnomaly(position) ==
    JSMod(RadToDeg(Atan2(position[2], position[1])) + 360 * DegUnit, 360 * DegUnit)

\* estimateOrbitalPeriod(distanceKm, parentDiameterKm). The code's
\*   2 PI sqrt((1000 distanceKm)^3 / (G (4/3) PI (parentDiameterKm / 2)^3 density)) / 3600
\* is sqrt(24 PI 10^9 / (3600^2 G density)) (distanceKm / parentDiameterKm)^1.5
\* hours: 78.9 units of 100000 h times the ratio^1.5 for density 1.4, 39.8
\* units for density 5.5. The ratio is kept in 1/100.
estimateOrbitalPeriod(distanceKm, parentDiameterKm) ==
    LET ratio == RoundDiv(distanceKm * 100, parentDiameterKm)
        cube == RoundDiv(RoundDiv(ratio * ratio, 100) * ratio, 100)
        root == FloorSqrt(cube)                         \* 10 * ratio^1.5
        factor == IF parentDiameterKm * KmUnit > 100000 THEN 789 ELSE 398
    IN RoundDiv(factor * root, 100)

\* The orbital parameters enrichBodyData derives for a body from its parent
derivedOrbit(body, parentBody) ==
    LET relativePosition == getRelativePosition(body.position, parentBody.position)
        distance == calculateDistance(relativePosition)
    IN [defined |-> TRUE,
        semiMajorAxis |-> kmToGm(distance),
        eccentricity |-> Unit \div 100,
        inclination |-> 0,
        longitudeOfAscendingNode |-> 0,
        argumentOfPeriapsis |-> 0,
        meanAnomaly |-> calculateInitialMeanAnomaly(relativePosition),
        orbitalPeriod |-> estimateOrbitalPeriod(distance,
                              IF parentBody.diameter # 0 THEN parentBody.diameter
                              ELSE 1000000 \div KmUnit)]

\* enrichBodyData over the bodies of the lookup map (bodiesById, by name): a
\* body without parent, or whose parent is not in the map, is skipped
enrichBodyData(bodies) ==
    [n \in DOMAIN bodies |->
        LET body == bodies[n]
        IN IF body.parent = "" THEN body
           ELSE IF body.parent \notin DOMAIN bodies THEN body
           ELSE [body EXCEPT !.orbitalParameters = derivedOrbit(body, bodies[body.parent])]]

\* The offset calculateCurrentPosition adds to the parent's position: the
\* elements propagated to timeInHours, in km
orbitalOffset(orbitalParameters, timeInHours) ==
    LET n_t == RoundDiv(TwoPi * timeInHours, orbitalParameters.orbitalPeriod)
        M == JSMod(DegToRad(orbitalParameters.meanAnomaly) + n_t, TwoPi)
        E == solveKeplersEquation(M, orbitalParameters.eccentricity)
        trueAnomaly == calculateTrueAnomaly(E, orbitalParameters.eccentricity)
        xy == orbitalToCartesian(orbitalParameters.semiMajorAxis,
                                 orbitalParameters.eccentricity, trueAnomaly)
        ref == rotateToReferenceFrame(xy[1], xy[2],
                                      DegToRad(orbitalParameters.inclination),
                                      DegToRad(orbitalParameters.longitudeOfAscendingNode),
                                      DegToRad(orbitalParameters.argumentOfPeriapsis))
    IN [i \in 1..3 |-> RoundDiv(ref[i] * gmToKm(Unit), Unit)]

\* The elements a body without orbitalParameters would be propagated with
\* if the early return were absent (semi-major axis 1 Gm, a period of one
\* time unit)
DefaultOrbit ==
    [NoOrbitalParameters EXCEPT !.defined = TRUE, !.semiMajorAxis = Unit, !.orbitalPeriod = 1]

\* calculateCurrentPosition with the two early returns dropped
calculateCurrentPosition_noEarlyReturn(bodies, body, timeInHours) ==
    VAdd(IF body.parent \in DOMAIN bodies THEN bodies[body.parent].position ELSE Zero3,
         orbitalOffset(IF body.orbitalParameters.defined THEN body.orbitalParameters
                       ELSE DefaultOrbit, timeInHours))

\* calculateCurrentPosition(body, timeInHours)
calculateCurrentPosition(bodies, body, timeInHours) ==
    IF body.parent = "" \/ ~body.orbitalParameters.defined THEN body.position
    ELSE IF body.parent \notin DOMAIN bodies THEN body.position
    ELSE VAdd(bodies[body.parent].position,
              orbitalOffset(body.orbitalParameters, timeInHours))

----------------------------------------------------------------------------
\* StarSystemService: the constructed service and calls of
\* calculateCurrentPosition

\* Positions of the planet (km / KmUnit), in the plane of the star and off it
PlanetPositions ==
    {Vec(12850, 0, 0), Vec(0, 12850, 0), Vec(-9000, 9000, 0), Vec(12000, 0, 4000),
     Vec(0, 0, 5000)}

\* Positions of the moon relative to the planet
MoonOffsets == {Vec(400, 0, 0), Vec(0, -400, 0), Vec(300, 0, 300)}

\* Elapsed times, in units of 100000 h
Times == {0, 250, 500, 1000}

\* The parent field of the moon, which is listed among the children of the
\* planet: the planet's name, or absent
MoonParents == {"Hurston", ""}

\* systemData.root
SystemRoot == "Stanton"

\* The data file: a star, a planet of the star, a moon of the planet, and a
\* body whose parent is not in the file
RawSystems ==
    { [Stanton |-> Body(SystemRoot, "", Zero3, 1392),
       Hurston |-> Body("Hurston", SystemRoot, p, 13),
       Arial |-> Body("Arial", mp, VAdd(p, o), 0),
       Stray |-> Body("Stray", "Nowhere", Vec(5000, 5000, 0), 0)]
      : p \in PlanetPositions, o \in MoonOffsets, mp \in MoonParents }

NoPosition == [called |-> FALSE, body |-> "", timeInHours |-> 0, result |-> Zero3]

\* constructor: buildLookupMaps and enrichBodyData over the data file
OrbitInit ==
    /\ systemData \in { enrichBodyData(raw) : raw \in RawSystems }
    /\ lastPosition = NoPosition

\* calculateCurrentPosition(getBodyByName(name), timeInHours)
currentPositionCall(name, timeInHours) ==
    /\ name \in DOMAIN systemData
    /\ lastPosition' = [called |-> TRUE, body |-> name, timeInHours |-> timeInHours,
                        result |-> calculateCurrentPosition(systemData, systemData[name],
                                                            timeInHours)]
    /\ UNCHANGED <<systemData, kepler, anomaly, probe, camVars, loadVars>>

OrbitNext == \E name \in DOMAIN systemData, t \in Times : currentPositionCall(name, t)

----------------------------------------------------------------------------
\* CameraController: updateCameraPlanes and the zoom speed as functions of the
\* distance to the focus target, on a grid that separates every distance band
\*
\* Distances and cam.far are in units of 0.0001 Gm, cam.near in units of
\* 0.000000001 Gm, zoom speeds in units of 0.000001 Gm, the frame delta in ms.

FinePerGm == 10000

\* updateCameraPlanes: cam.near for a distance
camNearAt(distance) ==
    LET nearPlaneDistance ==
            IF distance > 10 * FinePerGm THEN distance * 1000           \* distance * 0.01
            ELSE IF distance > FinePerGm THEN distance * 100            \* distance * 0.001
            ELSE IF distance > FinePerGm \div 10 THEN distance * 10     \* distance * 0.0001
            ELSE IF distance > FinePerGm \div 100 THEN distance         \* distance * 0.00001
            ELSE IF distance > FinePerGm \div 1000 THEN distance \div 10  \* distance * 0.000001
            ELSE 100                                                    \* 0.0000001
    IN MathMax(100, nearPlaneDistance)

\* An updateCameraPlanes whose far plane is 200 between the planets and 150
\* in the system view
camFarAt_bandsSwapped(distance) ==
    IF distance > 50 * FinePerGm THEN 150 * FinePerGm
    ELSE IF distance > 10 * FinePerGm THEN 200 * FinePerGm
    ELSE IF distance > FinePerGm THEN MathMax(100 * FinePerGm, distance * 15)
    ELSE MathMax(50 * FinePerGm, distance * 20)

\* updateCameraPlanes: cam.far for a distance
camFarAt(distance) ==
    IF distance > 50 * FinePerGm THEN 200 * FinePerGm
    ELSE IF distance > 10 * FinePerGm THEN 150 * FinePerGm
    ELSE IF distance > FinePerGm THEN MathMax(100 * FinePerGm, distance * 15)
    ELSE MathMax(50 * FinePerGm, distance * 20)

\* useFrame: adaptiveZoomSpeed for a distance and a frame delta:
\*   baseZoomSpeed = 10 * delta; baseZoomSpeed * distanceToTarget * factor,
\*   clamped to [0.000001, 40]
adaptiveZoomSpeedAt(distanceToTarget, deltaMs) ==
    LET factor10 == IF distanceToTarget > 10 * FinePerGm THEN 2
                    ELSE IF distanceToTarget > FinePerGm THEN 3
                    ELSE IF distanceToTarget > FinePerGm \div 10 THEN 4
                    ELSE IF distanceToTarget > FinePerGm \div 100 THEN 6
                    ELSE IF distanceToTarget > FinePerGm \div 1000 THEN 8
                    ELSE 12
        raw == (deltaMs * distanceToTarget * factor10) \div 10
    IN MathMax(1, MathMin(40 * 1000000, raw))

\* useFrame: the length of the step a frame applies to the camera position:
\* adaptiveZoomSpeed * 2.0 for zoom in, adaptiveZoomSpeed for zoom out
zoomStepAt(distanceToTarget, deltaMs, zl) ==
    IF zl < 0 THEN adaptiveZoomSpeedAt(distanceToTarget, deltaMs) * 2
    ELSE adaptiveZoomSpeedAt(distanceToTarget, deltaMs)

\* Distances on both sides of every band edge (0.001, 0.01, 0.1, 1, 10, 50 Gm)
DistanceSamples ==
    {0, 1, 9, 10, 11, 99, 100, 101, 999, 1000, 1001, 9999, 10000, 10001, 50000,
     99999, 100000, 100001, 300000, 499999, 500000, 500001, 1000000}

\* Frame deltas: 60 frames per second, 10 frames per second, a stalled tab
DeltaSamples == {16, 100, 500}

NoProbe == [pc |-> "idle", d1 |-> 0, d2 |-> 0, deltaMs |-> 0, zoomLevel |-> 0,
            near |-> <<0, 0>>, far |-> <<0, 0>>, step |-> <<0, 0>>]

\* Two camera distances, a frame delta and a held zoom key
ProbeInit ==
    probe \in { [NoProbe EXCEPT !.pc = "input", !.d1 = a, !.d2 = b, !.deltaMs = ms,
                                !.zoomLevel = zl] :
                a \in DistanceSamples, b \in DistanceSamples, ms \in DeltaSamples,
                zl \in {-1, 1} }

\* updateCameraPlanes(cam) at each of the two distances
updateCameraPlanesCall ==
    /\ probe.pc = "input"
    /\ probe' = [probe EXCEPT !.pc = "planes",
                              !.near = <<camNearAt(probe.d1), camNearAt(probe.d2)>>,
                              !.far = <<camFarAt(probe.d1), camFarAt(probe.d2)>>]
    /\ UNCHANGED <<kepler, anomaly, systemData, lastPosition, camVars, loadVars>>

\* the zoom block of a frame at each of the two distances
zoomStepCall ==
    /\ probe.pc = "input"
    /\ probe' = [probe EXCEPT !.pc = "zoom",
                              !.step = <<zoomStepAt(probe.d1, probe.deltaMs, probe.zoomLevel),
                                         zoomStepAt(probe.d2, probe.deltaMs, probe.zoomLevel)>>]
    /\ UNCHANGED <<kepler, anomaly, systemData, lastPosition, camVars, loadVars>>

ProbeNext == updateCameraPlanesCall \/ zoomStepCall

----------------------------------------------------------------------------
\* Specifications

\* The loader as the camera specification sees it: constructed on the tree
\* of a star alone, never reprocessed
LoadIdle ==
    /\ rawData = RawNode("Stanton", "Stanton (star)", "Star", "", Zero3, 696, <<>>)
    /\ LET r == processSystemData(rawData)
       IN /\ processedData = r.data
          /\ rootObject = r.root
          /\ loadReport = r.report
    /\ reprocessCount = 0
    /\ lastRead = NoRead

\* The solver and the propagator as the other specifications see them
AstroIdle ==
    /\ kepler = KeplerIdle
    /\ anomaly = NoAnomaly
    /\ systemData = <<>>
    /\ lastPosition = NoPosition
    /\ probe = NoProbe

\* The camera controller
Init == CamInit /\ LoadIdle /\ AstroIdle
Next == CamNext
Spec == Init /\ [][Next]_vars

\* The body graph loader
InitLoad == LoadInit /\ CamInit /\ AstroIdle
NextLoad == LoadNext
SpecLoad == InitLoad /\ [][NextLoad]_vars

\* The camera controller with no zoom key held, under a render loop that
\* keeps calling the frame callback. A step that is not a call through the
\* handle is a frame. The fairness is weak fairness of the frame during a
\* transition, written out: the transition is over infinitely often, or
\* frames are taken infinitely often.
NextLive ==
    \/ \E t \in Targets \cup {Null} : changeFocus(t)
    \/ \E m \in CameraMode : setCameraMode(m)
    \/ resetView
    \/ \E d \in Deltas : useFrame(d)
FrameStep == nOps' = nOps /\ zoomLevel' = zoomLevel
FramesKeepComing == []<>(~isTransitioning) \/ []<><<FrameStep>>_vars
SpecLive == Init /\ [][NextLive]_vars /\ FramesKeepComing

\* The Kepler solver
InitKepler ==
    KeplerInit /\ systemData = <<>> /\ lastPosition = NoPosition /\ probe = NoProbe /\ CamInit /\ LoadIdle
NextKepler == KeplerNext
SpecKepler == InitKepler /\ [][NextKepler]_vars

\* The camera utilities on their own
InitProbe ==
    ProbeInit /\ kepler = KeplerIdle /\ anomaly = NoAnomaly /\ systemData = <<>>
        /\ lastPosition = NoPosition /\ CamInit /\ LoadIdle
NextProbe == ProbeNext
SpecProbe == InitProbe /\ [][NextProbe]_vars

\* The star system service
InitOrbit ==
    OrbitInit /\ kepler = KeplerIdle /\ anomaly = NoAnomaly /\ probe = NoProbe /\ CamInit /\ LoadIdle
NextOrbit == OrbitNext
SpecOrbit == InitOrbit /\ [][NextOrbit]_vars

----------------------------------------------------------------------------
\* Properties of the camera controller (checked under Spec)

ZoomLevels == {-1, 0, 1}

\* distance(pos, ft.position) >= ft.objectSize * 1.1, on squares; FALSE on NaN
AtLeastMinDistance(pos, ft) ==
    LET distSq == DistSq(pos, ft.position)
    IN /\ ~IsNaN(distSq)
       /\ ~IsNaN(ft.objectSize)
       /\ 100 * distSq >= 121 * ft.objectSize * ft.objectSize

\* no NaN has reached the camera or the start values of the transition
CameraFinite ==
    ~HasNaN(camPosition) /\ ~HasNaN(controlsTarget)
        /\ ~HasNaN(transitionStartPos) /\ ~HasNaN(transitionStartTarget)

\* C1: whatever the reachable state, the zoom intent and the frame delta, the
\* per-frame update leaves the camera at least 1.1 x objectSize away from the
\* focus target.  Stated for a well-formed target and a finite camera, so that
\* the degenerate inputs of C7 play no part in it.
C1_MinDistanceFloor ==
    (focusTarget # Null /\ ~IsDegenerate(focusTarget) /\ CameraFinite) =>
        \A zl \in ZoomLevels, d \in Deltas :
            AtLeastMinDistance(FrameCamera(zl, d).position, focusTarget)

\* The floor is missed only by a frame that leaves the camera exactly on the
\* focus position, where the clamp has no direction to push along.
C1_OnlyCoincidenceBreaksFloor ==
    (focusTarget # Null /\ ~IsDegenerate(focusTarget) /\ CameraFinite) =>
        \A zl \in ZoomLevels, d \in Deltas :
            \/ AtLeastMinDistance(FrameCamera(zl, d).position, focusTarget)
            \/ FrameCamera(zl, d).position = focusTarget.position

\* C2: after changeFocus(target), until the next call through the handle, the
\* camera mode is fixed by the kind of
\* the target alone: star -> overview; planet, moon -> orbit; station, jump
\* point, lagrange -> first person; null -> overview.
C2_ModeFollowsKind ==
    last.op = "changeFocus" =>
        /\ focusTarget = last.target
        /\ last.target = Null => cameraMode = MODE_OVERVIEW
        /\ last.target.objectType = "star" => cameraMode = MODE_OVERVIEW
        /\ last.target.objectType \in {"planet", "moon"} => cameraMode = MODE_ORBIT
        /\ last.target.objectType \in {"station", "jump_point", "lagrange"}
              => cameraMode = MODE_FIRST_PERSON

\* A second changeFocus, to a moon, has just switched a controller that was in
\* another state to the orbit mode.
C2_Witness ==
    /\ last.op = "changeFocus"
    /\ nOps = 2
    /\ last.target.objectType = "moon"
    /\ cameraMode = MODE_ORBIT
    /\ transitionProgress = 0
    /\ zoomLevel # 0
    /\ last.interrupted

\* C3: after resetView, until the next call through the handle, the mode is
\* overview and the focus target is null.
C3_ResetViewClears ==
    last.op = "resetView" => (cameraMode = MODE_OVERVIEW /\ focusTarget = Null)

\* resetView has just acted on a controller whose camera had been moved away
\* by an earlier focus change and which was zooming.
C3_Witness ==
    /\ last.op = "resetView"
    /\ nOps = 2
    /\ focusTarget = Null
    /\ isTransitioning
    /\ transitionProgress = 0
    /\ camPosition # DEFAULT_CAMERA_POSITION
    /\ zoomLevel # 0

\* C4: every changeFocus, and every setCameraMode to another mode, starts an
\* eased transition: isTransitioning is true, transitionProgress is 0, and the
\* camera is not placed directly but interpolated from where it was.
C4_EverySwitchStartsTransition ==
    [][ ( \/ (last'.op = "changeFocus" /\ nOps' = nOps + 1)
          \/ (last'.op = "setCameraMode" /\ nOps' = nOps + 1 /\ cameraMode' # cameraMode) )
        => ( /\ isTransitioning'
             /\ transitionProgress' = 0
             /\ camPosition' = camPosition
             /\ controlsTarget' = controlsTarget
             /\ transitionStartPos' = camPosition
             /\ transitionStartTarget' = controlsTarget ) ]_vars

\* C5: while a transition is under way a frame with zoom intent in or out
\* leaves the camera where the same frame with no zoom intent leaves it.
C5_NoZoomWhileTransitioning ==
    isTransitioning =>
        \A d \in Deltas :
            /\ FrameCamera(-1, d).position = FrameCamera(0, d).position
            /\ FrameCamera(1, d).position = FrameCamera(0, d).position

\* C6: a changeFocus issued during a transition restarts the interpolation:
\* progress back to 0, still transitioning, and the start position and start
\* look-at are those of the camera at the moment of the call.
C6_InterruptRestartsFromCurrent ==
    [][ (last'.op = "changeFocus" /\ nOps' = nOps + 1 /\ isTransitioning)
        => ( /\ transitionProgress' = 0
             /\ isTransitioning'
             /\ transitionStartPos' = camPosition
             /\ transitionStartTarget' = controlsTarget ) ]_vars

\* A changeFocus has just interrupted a transition whose camera had already
\* left the start position of that transition.
C6_Witness ==
    /\ last.op = "changeFocus"
    /\ last.interrupted
    /\ isTransitioning
    /\ transitionProgress = 0
    /\ transitionStartPos = camPosition
    /\ transitionStartPos # DEFAULT_CAMERA_POSITION

\* C7: a changeFocus with a degenerate target (objectSize zero or NaN, or a NaN
\* position component) is ignored, focus target, mode, isTransitioning,
\* transitionProgress and camera position keeping their values; and no frame
\* ever writes a NaN into the camera position.
C7_DegenerateTargetIgnored ==
    /\ [][ (last'.op = "changeFocus" /\ nOps' = nOps + 1 /\ IsDegenerate(last'.target))
           => UNCHANGED <<focusTarget, cameraMode, isTransitioning, transitionProgress,
                          camPosition>> ]_vars
    /\ [](~HasNaN(camPosition))

----------------------------------------------------------------------------
\* Properties of the body graph loader (checked under SpecLoad)

Range(seq) == { seq[i] : i \in 1..Len(seq) }

\* some node declares a parent name that no node of the tree carries
HasDanglingParent(raw) ==
    LET nodes == AllNodes(raw)
    IN \E i \in 1..Len(nodes) :
          /\ nodes[i].parent # ""
          /\ \A j \in 1..Len(nodes) : nodes[j].name # nodes[i].parent

\* two distinct nodes carry the same name
HasDuplicateName(raw) ==
    LET nodes == AllNodes(raw)
    IN \E i, j \in 1..Len(nodes) :
          i < j /\ nodes[i].name # "" /\ nodes[i].name = nodes[j].name

\* some node has no name
HasNamelessNode(raw) ==
    LET nodes == AllNodes(raw)
    IN \E i \in 1..Len(nodes) : nodes[i].name = ""

\* the load said that something was wrong (console.error or console.warn)
LoadReportsFailure == loadReport.errors + loadReport.warnings > 0

IndexedIds == Range(processedData.order)

\* C8: a tree with a node whose declared parent matches no node's name is
\* rejected: the load reports failure and indexes nothing of it.
C8_DanglingParentRejected ==
    HasDanglingParent(rawData) => (LoadReportsFailure /\ IndexedIds = {})

\* C9: a tree in which two distinct nodes share a name is rejected: the load
\* reports failure, and the index entry of the name is still the first node.
C9_DuplicateNameRejected ==
    HasDuplicateName(rawData) =>
        /\ LoadReportsFailure
        /\ LET nodes == AllNodes(rawData)
           IN \A i \in 1..Len(nodes) :
                 ( /\ nodes[i].name \in IndexedIds
                   /\ \E j \in (i + 1)..Len(nodes) : nodes[j].name = nodes[i].name
                   /\ \A k \in 1..(i - 1) : nodes[k].name # nodes[i].name )
                 => processedData.byId[nodes[i].name].position = nodes[i].position

\* C10: loading is all-or-nothing: with a nameless node in the input nothing is
\* indexed (getAllObjects empty, getRootObject null); with a well-formed input
\* every node is indexed.
C10_AllOrNothing ==
    /\ HasNamelessNode(rawData) => (objectValues = <<>> /\ getRootObjectResult = <<>>)
    /\ (rawData # NoRoot /\ ~HasNamelessNode(rawData) /\ ~HasDuplicateName(rawData)
          /\ ~HasDanglingParent(rawData))
         => \A n \in Range(AllNodes(rawData)) : n.name \in IndexedIds

C12_ReadersSeeCompleteGraph ==
    LET g == processSystemData(rawData)
        values == [i \in 1..Len(g.data.order) |-> g.data.byId[g.data.order[i]]]
    IN /\ lastRead.op = "getAllObjects" => lastRead.result = values
       /\ lastRead.op = "getRootObject" =>
             lastRead.result = IF g.root # "" /\ g.root \in DOMAIN g.data.byId
                               THEN <<g.data.byId[g.root]>> ELSE <<>>
       /\ lastRead.op = "getObjectsByType" =>
             lastRead.result = SelectSeq(values, LAMBDA obj : obj.type = lastRead.arg)
       /\ lastRead.op = "getChildren" =>
             lastRead.result = IF lastRead.arg \in DOMAIN g.data.byId
                               THEN LET kids == g.data.byId[lastRead.arg].children
                                    IN [i \in 1..Len(kids) |-> g.data.byId[kids[i]]]
                               ELSE <<>>
       /\ rootObject = "" => processedData.order = <<>>

\* After a reprocessData a reader has fetched the children of a body that has
\* some, in a graph of three bodies.
C12_Witness ==
    /\ reprocessCount >= 1
    /\ lastRead.op = "getChildren"
    /\ lastRead.result # <<>>
    /\ Len(processedData.order) = 3

----------------------------------------------------------------------------
\* Properties of the Kepler solver (checked under SpecKepler)

\* the last step is within the tolerance (or is NaN, which no comparison exceeds)
StepWithinTolerance(k) == IsNaN(k.delta) \/ Abs(k.delta) <= tolerance

\* C16: solveKeplersEquation terminates and returns a value: it makes at most
\* 30 passes, every pass but the first follows a step beyond the tolerance,
\* each step of the run is one more pass or the return, and the return hands
\* back the current estimate, unchanged, when the last step is within the
\* tolerance or when the cap is reached.
C16_SolverTerminates ==
    /\ [](kepler.iteration <= maxIterations)
    /\ [](kepler.pc = "done" =>
            (StepWithinTolerance(kepler) \/ kepler.iteration = maxIterations))
    /\ [][ kepler' # kepler =>
             \/ /\ kepler'.pc = "loop"
                /\ kepler'.iteration = kepler.iteration + 1
                /\ ~StepWithinTolerance(kepler)
                /\ kepler.iteration < maxIterations
             \/ /\ kepler'.pc = "done"
                /\ kepler'.E = kepler.E
                /\ kepler'.iteration = kepler.iteration ]_vars

\* The solver has returned at the cap, with its last step still beyond the
\* tolerance, for an eccentricity below 1: from eccentricity 0.8001 and mean
\* anomaly -4.15 the passes cycle through four estimates and never settle.
C16_Witness ==
    /\ kepler.pc = "done"
    /\ kepler.iteration = maxIterations
    /\ ~StepWithinTolerance(kepler)
    /\ kepler.eccentricity = 8001
    /\ kepler.meanAnomaly = -41500
    /\ Abs(kepler.delta) > Unit

\* C18: for eccentricity 0, calculateTrueAnomaly returns the eccentric anomaly
\* it was given, over the full range [0, 2 PI) (up to the rounding of the
\* grid: 5 units).
C18_CircularTrueAnomalyIsE ==
    (anomaly.called /\ anomaly.eccentricity = 0)
        => Abs(anomaly.result - anomaly.eccentricAnomaly) <= 5

----------------------------------------------------------------------------
\* Properties of the star system service (checked under SpecOrbit)

\* the body of the last call, as the service holds it
LastBody == systemData[lastPosition.body]

\* two positions agree to 5 length units in every coordinate
NearPosition(u, v) == \A i \in 1..3 : Abs(u[i] - v[i]) <= 5

\* C13: for a body with derived orbital elements, whatever its vector to its
\* parent, calculateCurrentPosition(body, 0) gives the position the elements
\* were derived from (up to the rounding of the grid).
C13_EpochPositionReproduced ==
    (/\ lastPosition.called
     /\ lastPosition.timeInHours = 0
     /\ LastBody.orbitalParameters.defined)
        => NearPosition(lastPosition.result, LastBody.position)

\* C14: for a body whose parent has orbital elements itself, the result at
\* any time is the parent's position at that time plus the body's own offset
\* at that time (up to the rounding of the grid).
C14_ComposesParentCurrentPosition ==
    (/\ lastPosition.called
     /\ LastBody.orbitalParameters.defined
     /\ systemData[LastBody.parent].orbitalParameters.defined)
        => NearPosition(lastPosition.result,
                        VAdd(calculateCurrentPosition(systemData, systemData[LastBody.parent],
                                                      lastPosition.timeInHours),
                             orbitalOffset(LastBody.orbitalParameters,
                                           lastPosition.timeInHours)))

\* C15: for a body without parent or without derived orbital elements, the
\* result is the body's stored position, at every time.
C15_StaticWithoutOrbit ==
    (/\ lastPosition.called
     /\ (LastBody.parent = "" \/ ~LastBody.orbitalParameters.defined))
        => lastPosition.result = LastBody.position

\* The position of a body that has a parent name but no derived elements has
\* been asked at a time after the epoch, and the result is where it is stored.
C15_Witness ==
    /\ lastPosition.called
    /\ LastBody.parent # ""
    /\ ~LastBody.orbitalParameters.defined
    /\ lastPosition.timeInHours > 0
    /\ lastPosition.result = LastBody.position
    /\ lastPosition.result # Zero3

----------------------------------------------------------------------------
\* Properties of the transition (checked under SpecLive and Spec)

\* C19: under a render loop that keeps calling the frame callback, a
\* transition that is under way ends: isTransitioning becomes false with
\* transitionProgress at 1 (TransitionTicks ticks); and isTransitioning,
\* once false, becomes true only by a changeFocus (from the handle or from
\* resetView).
C19_StartedTransitionEnds ==
    /\ isTransitioning ~> (~isTransitioning /\ transitionProgress = TransitionTicks)
    /\ [][ (~isTransitioning /\ isTransitioning')
            => (last'.op \in {"changeFocus", "resetView"} /\ nOps' = nOps + 1) ]_vars

\* A transition started by changeFocus on a target has been ended by the
\* frames: isTransitioning is false and the progress stands at 1.
C19_Witness ==
    /\ last.op = "changeFocus"
    /\ focusTarget # Null
    /\ ~isTransitioning
    /\ transitionProgress = TransitionTicks

\* C20: in every reachable state of the controller, transitionProgress is
\* between 0 and 1 (TransitionTicks ticks), whatever calls, zoom intents and
\* frames led to it.
C20_ProgressInUnitInterval ==
    /\ 0 <= transitionProgress
    /\ transitionProgress <= TransitionTicks

\* A transition started from the handle has been ended by a frame: progress
\* stands at 1.
C20_Witness ==
    /\ nOps > 0
    /\ ~isTransitioning
    /\ transitionProgress = TransitionTicks

----------------------------------------------------------------------------
\* Properties of the solver's normalisation (checked under SpecKepler)

\* C30: for every finite meanAnomaly handed to solveKeplersEquation, negative
\* values and values of a turn or more included, the M the passes use lies in
\* [0, 2 PI).
C30_MeanAnomalyNormalised ==
    (kepler.pc # "idle" /\ ~IsNaN(kepler.meanAnomaly))
        => (0 <= kepler.M /\ kepler.M < TwoPi)

----------------------------------------------------------------------------
\* Properties of the modes (checked under Spec)

\* C21: in every reachable state of the controller, a null focus target goes
\* with the mode Overview: Orbit and FirstPerson occur only while a focus
\* target is set.
C21_NullFocusIsOverview == focusTarget = Null => cameraMode = MODE_OVERVIEW

\* C22: the camera does not jump when a transition ends: in the step in which
\* isTransitioning becomes false, the camera position and the look-at the mode
\* effect applies are the position and the look-at the transition was
\* interpolating toward, for the same focus target and mode.
C22_NoJumpAtTransitionEnd ==
    [][ (isTransitioning /\ ~isTransitioning')
        => ( /\ camPosition' = targetCameraPosition(focusTarget, cameraMode)
             /\ controlsTarget' = targetControlsPosition(focusTarget, cameraMode) ) ]_vars

----------------------------------------------------------------------------
\* The camera controller focused on a body that sits just above the height
\* floor of the overview

\* A star of radius 1 Gm at (0, 10.5, 0) Gm, below the overview camera
OverviewTargets == { FocusTarget("LowStar", "star", 10, Vec(0, 105, 0)) }

NextOverview ==
    \/ \E t \in OverviewTargets \cup {Null} : changeFocus(t)
    \/ \E m \in CameraMode : setCameraMode(m)
    \/ resetView
    \/ zoomIn
    \/ zoomOut
    \/ stopZoom
    \/ \E d \in Deltas : useFrame(d)
SpecOverview == Init /\ [][NextOverview]_vars

\* C23: in the Overview mode the camera is at y >= 10 after every frame, for
\* every focus target, object size and position and every zoom intent, also
\* in a frame in which the minimum-distance clamp moves the camera.
C23_OverviewHeightFloor ==
    [][ (FrameStep /\ cameraMode = MODE_OVERVIEW) => camPosition'[2] >= 10 * Q ]_vars

----------------------------------------------------------------------------
\* Properties of the clipping planes (checked under Spec)

\* cam.near < distance, with cam.near in NearUnitsPerGm-ths of a Gm and the
\* distance in grid units
NearBelow(near, distance) == CeilDiv(near + 1, NearUnitsPerGm \div Q) <= distance

\* A frame that does not end a transition: the camera stays where the frame
\* callback left it
FrameWithoutEffect == FrameStep /\ ~(isTransitioning /\ ~isTransitioning')

\* C24: after every frame with a focus target the focused object lies inside
\* the clipping range: cam.near < distance from the camera to the focus
\* target < cam.far.
C24_FocusInsideClippingRange ==
    [][ (FrameWithoutEffect /\ focusTarget # Null)
        => LET distance == distanceTo(camPosition', focusTarget.position)
           IN NearBelow(camNear', distance) /\ distance < camFar' ]_vars

----------------------------------------------------------------------------
\* Properties of the camera utilities (checked under SpecProbe)

\* C25: the clipping planes never fall below their floors and are monotone
\* in the distance: for d1 <= d2, near(d1) <= near(d2) and far(d1) <= far(d2);
\* near >= 0.0000001 and far >= 50.
C25_PlanesMonotoneAboveFloors ==
    probe.pc = "planes"
        => /\ probe.d1 <= probe.d2
                => (probe.near[1] <= probe.near[2] /\ probe.far[1] <= probe.far[2])
           /\ probe.near[1] >= 100
           /\ probe.far[1] >= 50 * FinePerGm

\* the planes were computed on the two sides of the 10 Gm band edge, where
\* both planes change formula
C25_Witness ==
    /\ probe.pc = "planes"
    /\ probe.d1 = 10 * FinePerGm
    /\ probe.d2 = 50 * FinePerGm + 1
    /\ probe.near[1] < probe.near[2]
    /\ probe.far[1] < probe.far[2]

\* C26: for a fixed frame delta the zoom step is monotonically non-decreasing
\* in the distance to the focus target, also across the band edges at 0.001,
\* 0.01, 0.1, 1 and 10 Gm.
C26_ZoomStepMonotone ==
    (probe.pc = "zoom" /\ probe.d1 <= probe.d2) => probe.step[1] <= probe.step[2]

----------------------------------------------------------------------------
\* Properties of the zoom (checked under Spec)

\* a frame that starts with a focus target set, no transition in progress and
\* the look-at point of the controls on the focus target
ZoomFrame(zl) ==
    /\ FrameStep
    /\ focusTarget # Null
    /\ ~isTransitioning
    /\ controlsTarget = focusTarget.position
    /\ zoomLevel = zl

\* C27: with a focus target set, no transition in progress and the look-at
\* point on the focus target, a frame with zoom in never leaves the camera
\* farther from the focus target than it was, and a frame with zoom out never
\* leaves it closer, for every frame delta.
C27_ZoomDirectionRespected ==
    [][ /\ ZoomFrame(-1) => ~NGt(DistSq(camPosition', focusTarget.position),
                                 DistSq(camPosition, focusTarget.position))
        /\ ZoomFrame(1) => ~NLt(DistSq(camPosition', focusTarget.position),
                                DistSq(camPosition, focusTarget.position)) ]_vars

----------------------------------------------------------------------------
\* Properties of the derived orbits (checked under SpecOrbit)

\* C28: after the load every body other than the root has derived orbital
\* elements and the root has none, whether or not the body's own parent field
\* is present.
C28_NonRootBodiesHaveOrbits ==
    \A n \in DOMAIN systemData :
        systemData[n].orbitalParameters.defined <=> (n # SystemRoot)

----------------------------------------------------------------------------
\* Properties of the index (checked under SpecLoad)

\* the names of the input tree are non-empty and pairwise different
UniqueNonEmptyNames(raw) ==
    /\ raw # NoRoot
    /\ LET nodes == AllNodes(raw)
       IN /\ \A i \in 1..Len(nodes) : nodes[i].name # ""
          /\ \A i, j \in 1..Len(nodes) : i # j => nodes[i].name # nodes[j].name

\* how often x occurs in seq
Occurrences(seq, x) == Cardinality({ i \in DOMAIN seq : seq[i] = x })

\* C29: for an input tree with unique non-empty names the index is consistent
\* with the tree after the initial load and after every reprocessData: every
\* input node is indexed exactly once under its name, exactly one indexed
\* object, the root, has parent null, and c occurs in p.children exactly once
\* if and only if c.parent = p.
C29_IndexConsistentWithTree ==
    UniqueNonEmptyNames(rawData) =>
        LET nodes == AllNodes(rawData)
            byId == processedData.byId
        IN /\ \A i \in 1..Len(nodes) :
                /\ Occurrences(processedData.order, nodes[i].name) = 1
                /\ nodes[i].name \in DOMAIN byId
                /\ byId[nodes[i].name].id = nodes[i].name
           /\ Len(processedData.order) = Len(nodes)
           /\ { id \in DOMAIN byId : byId[id].parent = "" } = {rawData.name}
           /\ \A p \in DOMAIN byId, c \in DOMAIN byId :
                (Occurrences(byId[p].children, c) = 1) <=> (byId[c].parent = p)

\* a chain star - planet - moon with unique names has been reprocessed
C29_Witness ==
    /\ reprocessCount > 0
    /\ UniqueNonEmptyNames(rawData)
    /\ Len(AllNodes(rawData)) = 3
    /\ processedData.byId["Stanton"].children = <<"Hurston">>
    /\ processedData.byId["Hurston"].children = <<"Aberdeen">>
    /\ processedData.byId["Aberdeen"].parent = "Hurston"

====
